---- MODULE Spec2Model ----
(***************************************************************************)
(* Model of the S3 backup utility: the change-detection upload pass of     *)
(* S3Sync.py (BackupFrame), Ver4.2.py (S3BackupApp) and backupjob.py, the  *)
(* restore pass of the two GUI programs, config.ini between the GUI and    *)
(* the job, and the threads, the Browse & Restore frame and the scheduler  *)
(* of the windows.                                                         *)
(*                                                                         *)
(* Strings are sequences of one-character strings, so that strip(),        *)
(* replace(), os.path.join() and os.path.relpath() are computed the way    *)
(* the Python code computes them.                                          *)
(***************************************************************************)
EXTENDS Integers, Sequences, FiniteSets, TLC

(***************************************************************************)
(* Bounds of the model.                                                    *)
(***************************************************************************)
\* runs (upload or restore passes) started in one behaviour
MaxOps == 2
\* failing calls (SDK or local file system) in one behaviour
MaxFaults == 1
\* keys per page of the paginated listing
PageSize == 1
\* actions of the user on the window in one behaviour
MaxClicks == 4
\* length of the namespace strings fed to the key derivation
MaxNsLen == 2

(***************************************************************************)
(* Strings.                                                                *)
(***************************************************************************)
\* the literal "Default" of `entry_computer_id.get().strip() or "Default"`
DefaultNs == <<"D", "e", "f", "a", "u", "l", "t">>

\* the literal "backup/" that starts every prefix and key
BackupLit == <<"b", "a", "c", "k", "u", "p", "/">>

\* the working directory os.path.abspath resolves relative paths against
Cwd == << <<"w">> >>

Platforms == {"nt", "posix"}

Variants == {"S3Sync", "Ver42", "job"}

GuiVariants == {"S3Sync", "Ver42"}

\* str.strip() removes leading and trailing whitespace
IsSpace(c) == c \in {" ", "\t", "\n"}

RECURSIVE LStrip(_)
LStrip(s) == IF s # <<>> /\ IsSpace(Head(s)) THEN LStrip(Tail(s)) ELSE s

RECURSIVE RStrip(_)
RStrip(s) ==
    IF s # <<>> /\ IsSpace(s[Len(s)]) THEN RStrip(SubSeq(s, 1, Len(s) - 1)) ELSE s

Strip(s) == RStrip(LStrip(s))

\* str.replace("\\", "/")
ReplaceBackslash(s) == [i \in 1..Len(s) |-> IF s[i] = "\\" THEN "/" ELSE s[i]]

\* os.sep and the characters os.path treats as separators
OsSep(pf) == IF pf = "nt" THEN "\\" ELSE "/"

IsSep(pf, c) == c = "/" \/ (pf = "nt" /\ c = "\\")

\* os.path.join(a, b) for a drive-less b
OsPathJoin(pf, a, b) ==
    IF b # <<>> /\ IsSep(pf, Head(b)) THEN b
    ELSE IF a = <<>> \/ IsSep(pf, a[Len(a)]) THEN a \o b
    ELSE a \o <<OsSep(pf)>> \o b

\* str.split(sep) over the platform's separators
RECURSIVE SplitSegs(_, _)
SplitSegs(pf, s) ==
    IF s = <<>> THEN << <<>> >>
    ELSE LET rest == SplitSegs(pf, Tail(s))
         IN  IF IsSep(pf, Head(s)) THEN << <<>> >> \o rest
             ELSE << <<Head(s)>> \o Head(rest) >> \o Tail(rest)

\* sep.join(segs)
RECURSIVE JoinSegs(_, _)
JoinSegs(pf, segs) ==
    IF segs = <<>> THEN <<>>
    ELSE IF Len(segs) = 1 THEN Head(segs)
    ELSE Head(segs) \o <<OsSep(pf)>> \o JoinSegs(pf, Tail(segs))

\* os.path.normpath on a list of components: drops "" and ".", resolves ".."
RECURSIVE NormSegs(_, _, _)
NormSegs(segs, acc, isabs) ==
    IF segs = <<>> THEN acc
    ELSE LET c == Head(segs)
         IN  IF c = <<>> \/ c = <<".">> THEN NormSegs(Tail(segs), acc, isabs)
             ELSE IF c = <<".", ".">>
                  THEN IF acc # <<>> /\ acc[Len(acc)] # <<".", ".">>
                       THEN NormSegs(Tail(segs), SubSeq(acc, 1, Len(acc) - 1), isabs)
                       ELSE IF isabs THEN NormSegs(Tail(segs), acc, isabs)
                       ELSE NormSegs(Tail(segs), Append(acc, c), isabs)
                  ELSE NormSegs(Tail(segs), Append(acc, c), isabs)

\* os.path.abspath(p), as the list of its components below the root
AbsSegs(pf, p) ==
    IF p # <<>> /\ IsSep(pf, Head(p)) THEN NormSegs(SplitSegs(pf, p), <<>>, TRUE)
    ELSE NormSegs(Cwd \o SplitSegs(pf, p), <<>>, TRUE)

RECURSIVE CommonLen(_, _)
CommonLen(a, b) ==
    IF a # <<>> /\ b # <<>> /\ Head(a) = Head(b)
    THEN 1 + CommonLen(Tail(a), Tail(b)) ELSE 0

\* os.path.relpath(path, start)
OsPathRelpath(pf, path, start) ==
    LET start_list == AbsSegs(pf, start)
        path_list  == AbsSegs(pf, path)
        i          == CommonLen(start_list, path_list)
        rel_list   == [j \in 1..(Len(start_list) - i) |-> <<".", ".">>]
                        \o SubSeq(path_list, i + 1, Len(path_list))
    IN  IF rel_list = <<>> THEN <<".">> ELSE JoinSegs(pf, rel_list)

\* the components of a path relative to the directory it is joined under
RelSegs(pf, p) == NormSegs(SplitSegs(pf, p), <<>>, FALSE)

\* os.path.dirname of a component list
DirnameSegs(segs) == IF segs = <<>> THEN <<>> ELSE SubSeq(segs, 1, Len(segs) - 1)

(***************************************************************************)
(* File contents, fingerprints and object keys.                            *)
(***************************************************************************)
\* the byte contents a file or an object can have
Contents == {"x", "yy"}

\* os.path.getsize / obj['Size']: the number of bytes of a content
SizeOf(c) == IF c = "x" THEN 1 ELSE 2

\* compute_md5: hashlib.md5 over the whole content, as a hex digest
Md5(c) ==
    IF c = "x" THEN "9dd4e461268c8034f5c8564e155c67a6"
    ELSE "2fb1c5cf58867b5bbc9a1b145a86f3a0"

\* response['Metadata'].get('file_md5', None) of an object stored without it
NoMd5 == "None"

\* `entry_computer_id.get().strip() or "Default"` in the GUI programs; the
\* headless job uses the computer_folder argument as it is
ComputerFolder(variant, raw) ==
    IF variant \in GuiVariants
    THEN IF Strip(raw) = <<>> THEN DefaultNs ELSE Strip(raw)
    ELSE raw

\* prefix = f"backup/{computer_folder}/"
Prefix(cf) == BackupLit \o cf \o <<"/">>

\* s3_key: os.path.join(prefix, rel_path).replace("\\", "/") in the GUI
\* programs, f"backup/{computer_folder}/{rel_path}".replace("\\", "/") in the job
\* S3Key with the .replace("\\", "/") left out
S3KeyNoReplace(variant, pf, raw, rel) ==
    OsPathJoin(pf, Prefix(ComputerFolder(variant, raw)), rel)

\* S3Key with the .replace left out of the job alone
S3KeyJobRaw(variant, pf, raw, rel) ==
    IF variant \in GuiVariants
    THEN ReplaceBackslash(OsPathJoin(pf, Prefix(ComputerFolder(variant, raw)), rel))
    ELSE BackupLit \o ComputerFolder(variant, raw) \o <<"/">> \o rel

S3Key(variant, pf, raw, rel) ==
    IF variant \in GuiVariants
    THEN ReplaceBackslash(OsPathJoin(pf, Prefix(ComputerFolder(variant, raw)), rel))
    ELSE ReplaceBackslash(BackupLit \o ComputerFolder(variant, raw) \o <<"/">> \o rel)

\* the path, below restore_dir, that restore_backup downloads a key to:
\* os.path.join(restore_dir, os.path.relpath(s3_key, prefix))
\* (LocalPathKeepPrefix: the key joined under restore_dir with its prefix on)
LocalPathKeepPrefix(pf, key, prefix) == RelSegs(pf, key)

LocalPath(pf, key, prefix) == RelSegs(pf, OsPathRelpath(pf, key, prefix))

\* byte order of keys, the order list_objects_v2 returns them in
Ord(c) ==
    CASE c = " " -> 32 [] c = "." -> 46 [] c = "/" -> 47 [] c = "D" -> 68
      [] c = "M" -> 77 [] c = "N" -> 78 [] c = "\\" -> 92 [] c = "a" -> 97
      [] c = "b" -> 98 [] c = "c" -> 99 [] c = "e" -> 101 [] c = "f" -> 102
      [] c = "k" -> 107 [] c = "l" -> 108 [] c = "p" -> 112 [] c = "s" -> 115
      [] c = "t" -> 116 [] c = "u" -> 117 [] OTHER -> 127

RECURSIVE KeyLess(_, _)
KeyLess(a, b) ==
    IF b = <<>> THEN FALSE
    ELSE IF a = <<>> THEN TRUE
    ELSE IF Head(a) = Head(b) THEN KeyLess(Tail(a), Tail(b))
    ELSE Ord(Head(a)) < Ord(Head(b))

RECURSIVE SortKeys(_)
SortKeys(S) ==
    IF S = {} THEN <<>>
    ELSE LET k == CHOOSE x \in S : \A y \in S : x = y \/ KeyLess(x, y)
         IN  <<k>> \o SortKeys(S \ {k})

\* key.startswith(prefix), the Prefix filter of list_objects_v2
StartsWith(s, p) == Len(p) <= Len(s) /\ SubSeq(s, 1, Len(p)) = p

(***************************************************************************)
(* The entry fields and the guards at the head of every entry point.       *)
(***************************************************************************)
\* None, as load_config of the job returns it for every field when config.ini
\* or its Settings section is missing
NoneVal == <<"None">>

\* `not x` for a string or None
Falsy(x) == x = <<>> \/ x = NoneVal

\* a value the user typed that is neither empty nor blank
Typed == <<"v">>

FieldNames == {"access", "secret", "bucket", "backup_dir", "restore_dir"}

\* every field filled in
ValidEntries == [f \in FieldNames |-> Typed]

\* get_s3_client of the GUI frames: None, after an error box, when a
\* credential is empty once stripped
GuiClient(e) ==
    IF Strip(e.access) = <<>> \/ Strip(e.secret) = <<>> THEN "None" ELSE "client"

\* the guards an entry point runs before it touches the SDK:
\*   backup_directory / restore_backup (GUI)  directory and stripped bucket, then credentials
\*   restore_selected_files                   stripped restore directory, then credentials
\*   refresh_file_list                        credentials
\*   main (job)                               not access_key or not secret_key or not bucket or not local_dir
Guard(v, op, e) ==
    CASE op = "backup" /\ v \in GuiVariants ->
            IF e.backup_dir = <<>> \/ Strip(e.bucket) = <<>> THEN "fields"
            ELSE IF GuiClient(e) = "None" THEN "credentials" ELSE "ok"
      [] op = "backup" /\ v \notin GuiVariants ->
            IF Falsy(e.access) \/ Falsy(e.secret) \/ Falsy(e.bucket) \/ Falsy(e.backup_dir)
            THEN "fields" ELSE "ok"
      [] op = "restore" ->
            IF Strip(e.bucket) = <<>> \/ e.restore_dir = <<>> THEN "fields"
            ELSE IF GuiClient(e) = "None" THEN "credentials" ELSE "ok"
      [] op = "selective" ->
            IF Strip(e.restore_dir) = <<>> THEN "fields"
            ELSE IF GuiClient(e) = "None" THEN "credentials" ELSE "ok"
      [] op = "refresh" ->
            IF GuiClient(e) = "None" THEN "credentials" ELSE "ok"

(***************************************************************************)
(* State.                                                                  *)
(***************************************************************************)
VARIABLES
    variant,            \* the program that runs: S3Sync.py, Ver4.2.py or backupjob.py
    platform,           \* the host's os.path flavour
    computer_id,        \* entry_computer_id / the computer_folder argument
    local,              \* the tree under local_dir: rel_path -> content
    remote,             \* the bucket: key -> [content, md5]
    dest,               \* the files below restore_dir: components -> content
    pc,                 \* where the worker is
    file_list,          \* backup_directory: the enumerated rel_paths
    object_list,        \* restore_backup: the listed (key, size) pairs
    idx,                \* position of the for loop in file_list / object_list
    local_md5,          \* fingerprint computed for the current file
    total_size,         \* self.total_size
    bytes_uploaded,     \* self.bytes_uploaded
    total_download_size, \* self.total_download_size
    bytes_downloaded,   \* self.bytes_downloaded
    calls,              \* the storage and file-system calls of the current run
    log,                \* the lines the current run logged
    notice,             \* the message boxes / notifications of the current run, in order
    keys,               \* the (namespace, rel_path, s3_key) triples derived so far
    opsDone,            \* the runs that have ended, oldest first
    faults,             \* calls that have failed so far
    edits,              \* local edits so far
    entries,            \* the entry fields (GUI) / the values load_config returned (job)
    config,             \* config.ini
    running,            \* BrowseRestoreFrame.running
    threads,            \* the threads that run a pass, in the order they were started
    scheduled_job,      \* S3BackupApp.scheduled_job
    timer,              \* whether a Tk after() callback for scheduled_backup is pending
    rows,               \* the rows of the Browse & Restore Treeview: listed keys
    clicks              \* the user's actions on the window so far

vars == <<variant, platform, computer_id, local, remote, dest, pc, file_list,
          object_list, idx, local_md5, total_size, bytes_uploaded,
          total_download_size, bytes_downloaded, calls, log, notice, keys,
          opsDone, faults, edits, entries, config, running, threads,
          scheduled_job, timer, rows, clicks>>

\* the state of the Browse & Restore frame, of the scheduler and of the threads
gui == <<config, running, threads, scheduled_job, timer, rows, clicks>>

down == <<total_download_size, bytes_downloaded>>

up == <<total_size, bytes_uploaded>>

\* what no pass writes
env == <<variant, platform, computer_id, keys, entries, gui>>

\* the trees under local_dir, as the sets of relative paths os.walk yields:
\* on Windows the separator is a backslash; elsewhere a backslash is an
\* ordinary character of a file name
TreeShapes(pf) ==
    IF pf = "nt"
    THEN {{<<"a">>}, {<<"a">>, <<"s", "\\", "b">>}}
    ELSE {{<<"s", "\\", "b">>}, {<<"a">>, <<"s", "/", "b">>},
          {<<"s", "/", "b">>, <<"s", "\\", "b">>}}

\* the namespace values the passes run with
NsInputs == {<<>>, <<"N">>, <<"N", "\\", "M">>}

Trees(pf) == UNION {[T -> Contents] : T \in TreeShapes(pf)}

\* an object another tool stored under a key: no file_md5 metadata
AlienObject == [content |-> "yy", md5 |-> NoMd5]

EmptyMap == [k \in {} |-> "x"]

KeyOf(rel) == S3Key(variant, platform, computer_id, rel)

Cur == file_list[idx]

CurKey == IF pc \in {"md5", "head", "upload"} THEN KeyOf(Cur) ELSE object_list[idx].key

\* one call as the callee saw it: what was called, for which loop position,
\* with which key, fingerprint and local path, and how it ended
Call(op, item, md5, path, res) ==
    [op |-> op, i |-> idx, item |-> item, md5 |-> md5, path |-> path, res |-> res]

Line(kind, item) == [kind |-> kind, item |-> item]

RECURSIVE SumSizes(_, _)
SumSizes(f, S) ==
    IF S = {} THEN 0
    ELSE LET k == CHOOSE x \in S : TRUE IN SizeOf(f[k]) + SumSizes(f, S \ {k})

Depth(pf, rel) == Len(SplitSegs(pf, rel))

\* os.walk, top down: the files of local_dir itself come before those of its
\* sub-directories; the order inside one directory is the file system's
WalkOrders(pf, tree) ==
    LET n == Cardinality(DOMAIN tree)
    IN  {w \in [1..n -> DOMAIN tree] :
            /\ \A i, j \in 1..n : i # j => w[i] # w[j]
            /\ \A i, j \in 1..n : i < j => Depth(pf, w[i]) <= Depth(pf, w[j])}

\* the field values a behaviour runs with: all filled in, one of them left
\* empty, a blank bucket or access key in the GUI, no config.ini for the job
EntrySets(v) ==
    {ValidEntries}
      \cup {[ValidEntries EXCEPT ![f] = <<>>] :
               f \in IF v \in GuiVariants THEN FieldNames ELSE FieldNames \ {"restore_dir"}}
      \cup (IF v \in GuiVariants
            THEN {[ValidEntries EXCEPT !["bucket"] = <<" ">>],
                  [ValidEntries EXCEPT !["access"] = <<" ">>]}
            ELSE {[f \in FieldNames |-> NoneVal]})

\* config.ini without a Settings section, or no config.ini at all
NoSettings == <<>>

\* no worker has been started, nothing is scheduled, nothing is listed
GuiIdle ==
    /\ config = NoSettings
    /\ running = FALSE
    /\ threads = <<>>
    /\ scheduled_job = "None"
    /\ timer = FALSE
    /\ rows = <<>>
    /\ clicks = 0

Init ==
    /\ variant \in Variants
    /\ platform \in Platforms
    /\ computer_id \in NsInputs
    /\ local \in Trees(platform)
    /\ entries \in EntrySets(variant)
    \* the runs with a field left out are explored for the default namespace
    \* and the trees of one file
    /\ entries # ValidEntries =>
          computer_id = <<>> /\ Cardinality(DOMAIN local) = 1
    /\ GuiIdle
    /\ \E K \in SUBSET {S3Key(variant, platform, computer_id, r) : r \in DOMAIN local} :
          /\ Cardinality(K) <= 1
          /\ remote = [k \in K |-> AlienObject]
    /\ dest = EmptyMap
    /\ pc = "idle"
    /\ file_list = <<>>
    /\ object_list = <<>>
    /\ idx = 0
    /\ local_md5 = NoMd5
    /\ total_size = 0
    /\ bytes_uploaded = 0
    /\ total_download_size = 0
    /\ bytes_downloaded = 0
    /\ calls = <<>>
    /\ log = <<>>
    /\ notice = <<>>
    /\ keys = <<>>
    /\ opsDone = <<>>
    /\ faults = 0
    /\ edits = 0

\* a run has ended: kind of pass, how it ended, and the edits and failed
\* calls counted up to then
Done(kind, outcome, failed) ==
    [kind |-> kind, outcome |-> outcome, edits |-> edits, faults |-> failed]

\* a guard turned the pass away.  In the GUI programs backup_directory /
\* restore_backup shows an error box and returns, and run_backup / run_restore
\* goes on to log completion and show the info box; main of the job logs the
\* error and returns before the notification
Rejected(kind) ==
    /\ log' = IF variant \in GuiVariants
              THEN <<Line("start", <<>>), Line("completed", <<>>)>>
              ELSE <<Line("start", <<>>), Line("error_config", <<>>)>>
    /\ notice' = IF variant \in GuiVariants THEN <<"error", "info">> ELSE <<>>
    /\ opsDone' = Append(opsDone, Done(kind, "rejected", faults))

(***************************************************************************)
(* The upload pass: backup_directory, under run_backup (GUI) or main (job). *)
(***************************************************************************)
\* start_backup_thread -> run_backup -> backup_directory up to the for loop;
\* main -> backup_directory in the job
StartBackup ==
    /\ pc = "idle"
    /\ Len(opsDone) < MaxOps
    /\ calls' = <<>>
    /\ IF Guard(variant, "backup", entries) = "ok"
       THEN /\ \E w \in WalkOrders(platform, local) : file_list' = w
            /\ total_size' = SumSizes(local, DOMAIN local)
            /\ bytes_uploaded' = 0
            /\ idx' = 1
            /\ local_md5' = NoMd5
            /\ log' = <<Line("start", <<>>)>>
            /\ notice' = <<>>
            /\ pc' = "md5"
            /\ UNCHANGED opsDone
       ELSE /\ Rejected("backup")
            /\ UNCHANGED <<pc, file_list, idx, local_md5, up>>
    /\ UNCHANGED <<env, local, remote, dest, object_list, down, faults, edits>>

\* an exception leaves backup_directory: run_backup logs it and shows an
\* error box; in the job it ends main before the completion lines
BackupRaised ==
    /\ pc' = "idle"
    /\ log' = IF variant \in GuiVariants THEN Append(log, Line("run_error", <<>>)) ELSE log
    /\ notice' = IF variant \in GuiVariants THEN Append(notice, "error") ELSE notice
    /\ opsDone' = Append(opsDone, Done("backup", "raised", faults + 1))

\* the for loop is exhausted: backup_directory returns, and run_backup / main
\* log completion and notify
BackupReturn ==
    /\ pc = "md5"
    /\ idx > Len(file_list)
    /\ pc' = "idle"
    /\ log' = Append(log, Line("completed", <<>>))
    /\ notice' = Append(notice, "info")
    /\ opsDone' = Append(opsDone, Done("backup", "returned", faults))
    /\ UNCHANGED <<env, local, remote, dest, file_list, object_list, idx, local_md5,
                   up, down, calls, faults, edits>>

\* local_md5 = compute_md5(full_path), outside every try block
ComputeMd5 ==
    /\ pc = "md5"
    /\ idx <= Len(file_list)
    /\ \/ /\ local_md5' = Md5(local[Cur])
          /\ pc' = "head"
          /\ UNCHANGED <<log, notice, opsDone, faults>>
       \/ /\ faults < MaxFaults
          /\ faults' = faults + 1
          /\ BackupRaised
          /\ UNCHANGED local_md5
    /\ UNCHANGED <<env, local, remote, dest, file_list, object_list, idx,
                   up, down, calls, edits>>

\* NextItem with a failed call tried again
NextItemRetry(i, res) == IF res = "ok" THEN i + 1 ELSE i

\* the for loops take the next item whatever became of the current one: a
\* skip, a `continue` after a logged error and the end of the loop body all
\* lead to the next element of file_list / object_list / selected_items
NextItem(i, res) == i + 1

\* how head_object can end: a response, ClientError 404, a ClientError with
\* another code, or an exception that is no ClientError (no connection)
HeadFaults == {"client_error", "other_error"}

\* HeadDecision with the fingerprint comparison lost: nothing is ever skipped
HeadDecisionNeverSkip(v, outcome, s3_md5, md5) ==
    CASE outcome \in {"ok", "404"} -> "upload"
      [] outcome = "client_error" ->
            IF v = "S3Sync" THEN "upload" ELSE "log_checking"
      [] outcome = "other_error" ->
            IF v = "S3Sync" THEN "upload"
            ELSE IF v = "Ver42" THEN "raise" ELSE "log_uploading"

\* what each program does with the outcome of head_object:
\*   S3Sync.py   try: ... except Exception: pass
\*   Ver4.2.py   try: ... except ClientError as e: if code != '404': log; continue
\*   backupjob   the same inside try: ... except Exception: print
HeadDecision(v, outcome, s3_md5, md5) ==
    CASE outcome = "ok" -> IF s3_md5 = md5 THEN "skip" ELSE "upload"
      [] outcome = "404" -> "upload"
      [] outcome = "client_error" ->
            IF v = "S3Sync" THEN "upload" ELSE "log_checking"
      [] outcome = "other_error" ->
            IF v = "S3Sync" THEN "upload"
            ELSE IF v = "Ver42" THEN "raise" ELSE "log_uploading"

\* SkipProgress with the skip branch leaving the counter alone
SkipProgressNone(v, size) == 0

\* the skip branch advances the progress counter of the GUI programs
SkipProgress(v, size) == IF v \in GuiVariants THEN size ELSE 0

HeadStep(outcome) ==
    LET s3_md5 == IF outcome = "ok" THEN remote[CurKey].md5 ELSE NoMd5
        d      == HeadDecision(variant, outcome, s3_md5, local_md5)
    IN  /\ calls' = Append(calls, Call("head_object", CurKey, s3_md5, <<>>, outcome))
        /\ CASE d = "skip" ->
                  /\ log' = Append(log, Line("skip", Cur))
                  /\ bytes_uploaded' =
                        bytes_uploaded + SkipProgress(variant, SizeOf(local[Cur]))
                  /\ idx' = NextItem(idx, "ok")
                  /\ pc' = "md5"
                  /\ UNCHANGED <<notice, opsDone>>
             [] d = "upload" ->
                  /\ pc' = "upload"
                  /\ UNCHANGED <<log, bytes_uploaded, idx, notice, opsDone>>
             [] d = "log_checking" ->
                  /\ log' = Append(log, Line("error_checking", CurKey))
                  /\ idx' = NextItem(idx, "error")
                  /\ pc' = "md5"
                  /\ UNCHANGED <<bytes_uploaded, notice, opsDone>>
             [] d = "log_uploading" ->
                  /\ log' = Append(log, Line("error_uploading", Cur))
                  /\ idx' = NextItem(idx, "error")
                  /\ pc' = "md5"
                  /\ UNCHANGED <<bytes_uploaded, notice, opsDone>>
             [] d = "raise" ->
                  /\ BackupRaised
                  /\ UNCHANGED <<bytes_uploaded, idx>>

\* response = s3.head_object(Bucket=bucket, Key=s3_key) and the comparison
HeadObject ==
    /\ pc = "head"
    /\ \/ /\ HeadStep(IF CurKey \in DOMAIN remote THEN "ok" ELSE "404")
          /\ UNCHANGED faults
       \/ /\ faults < MaxFaults
          /\ faults' = faults + 1
          /\ \E o \in HeadFaults : HeadStep(o)
    /\ UNCHANGED <<env, local, remote, dest, file_list, object_list, local_md5,
                   total_size, down, edits>>

\* the bytes the Callback of upload_file reports: all of them when the
\* transfer succeeds, any part of them when it fails; the job passes no Callback
UploadProgress(v, size, ok) ==
    IF v \in GuiVariants THEN (IF ok THEN {size} ELSE 0..size) ELSE {0}

\* Uploaded with the ExtraArgs metadata left out
UploadedWithoutMd5(content, md5) == [content |-> content, md5 |-> NoMd5]

\* what upload_file stores: the file's bytes, with Metadata file_md5 = local_md5
Uploaded(content, md5) == [content |-> content, md5 |-> md5]

\* s3.upload_file(full_path, bucket, s3_key, ExtraArgs=..., Callback=...)
UploadFile ==
    /\ pc = "upload"
    /\ \/ /\ calls' = Append(calls, Call("upload_file", CurKey, local_md5, <<>>, "ok"))
          /\ remote' = (CurKey :> Uploaded(local[Cur], local_md5)) @@ remote
          /\ log' = Append(log, Line("uploaded", Cur))
          /\ \E n \in UploadProgress(variant, SizeOf(local[Cur]), TRUE) :
                bytes_uploaded' = bytes_uploaded + n
          /\ idx' = NextItem(idx, "ok")
          /\ UNCHANGED faults
       \/ /\ faults < MaxFaults
          /\ faults' = faults + 1
          /\ calls' = Append(calls, Call("upload_file", CurKey, local_md5, <<>>, "error"))
          /\ log' = Append(log, Line("error_uploading", Cur))
          /\ \E n \in UploadProgress(variant, SizeOf(local[Cur]), FALSE) :
                bytes_uploaded' = bytes_uploaded + n
          /\ idx' = NextItem(idx, "error")
          /\ UNCHANGED remote
    /\ pc' = "md5"
    /\ UNCHANGED <<env, local, dest, file_list, object_list, local_md5, total_size,
                   down, notice, opsDone, edits>>

\* between two runs the user rewrites one file of the tree
EditLocal ==
    /\ pc = "idle"
    /\ opsDone # <<>>
    /\ Len(opsDone) < MaxOps
    /\ edits = opsDone[Len(opsDone)].edits
    /\ \E f \in DOMAIN local : \E c \in Contents \ {local[f]} :
          local' = [local EXCEPT ![f] = c]
    /\ edits' = edits + 1
    /\ UNCHANGED <<env, remote, dest, pc, file_list, object_list, idx, local_md5,
                   up, down, calls, log, notice, opsDone, faults>>

(***************************************************************************)
(* The restore pass: restore_backup under run_restore (GUI programs only).  *)
(***************************************************************************)
\* the prefix restore_backup lists and strips: f"backup/{computer_folder}/"
RestorePrefix == Prefix(ComputerFolder(variant, computer_id))

\* the keys list_objects_v2 yields for Prefix=prefix, in the order it yields them
Listing(bucket, prefix) == SortKeys({k \in DOMAIN bucket : StartsWith(k, prefix)})

\* one page of the paginator: the next PageSize keys after those already listed
Page(bucket, prefix, listed) ==
    LET all == Listing(bucket, prefix)
        hi  == IF listed + PageSize < Len(all) THEN listed + PageSize ELSE Len(all)
    IN  [keys |-> SubSeq(all, listed + 1, hi), truncated |-> hi < Len(all)]

Obj(key) == [key |-> key, size |-> SizeOf(remote[key].content)]

RECURSIVE SumObjs(_)
SumObjs(l) == IF l = <<>> THEN 0 ELSE Head(l).size + SumObjs(Tail(l))

\* start_restore_thread -> run_restore -> restore_backup up to the paginator
StartRestore ==
    /\ pc = "idle"
    /\ variant \in GuiVariants
    /\ Len(opsDone) < MaxOps
    /\ calls' = <<>>
    /\ IF Guard(variant, "restore", entries) = "ok"
       THEN /\ object_list' = <<>>
            /\ idx' = 0
            /\ log' = <<Line("start", <<>>)>>
            /\ notice' = <<>>
            /\ pc' = "list"
            /\ UNCHANGED opsDone
       ELSE /\ Rejected("restore")
            /\ UNCHANGED <<pc, object_list, idx>>
    /\ UNCHANGED <<env, local, remote, dest, file_list, local_md5, up, down,
                   faults, edits>>

\* an exception leaves restore_backup: run_restore logs it and shows an error box
RestoreRaised ==
    /\ pc' = "idle"
    /\ log' = Append(log, Line("run_error", <<>>))
    /\ notice' = Append(notice, "error")
    /\ opsDone' = Append(opsDone, Done("restore", "raised", faults + 1))

\* ListDecision with the `return` of the except block lost: the pass goes on
\* with the pages it has
ListDecisionProceed(v, outcome) ==
    IF v = "Ver42" /\ outcome = "other_error" THEN "raise" ELSE "proceed"

\* what each program does when a page of the listing fails:
\*   S3Sync.py   except Exception: log; return
\*   Ver4.2.py   except ClientError: log; return  (anything else propagates)
ListDecision(v, outcome) ==
    IF v = "Ver42" /\ outcome = "other_error" THEN "raise" ELSE "return"

\* for page in paginator.paginate(Bucket=bucket, Prefix=prefix): ...
ListPage ==
    /\ pc = "list"
    /\ \/ LET page == Page(remote, RestorePrefix, Len(object_list))
              objs == object_list \o [j \in 1..Len(page.keys) |-> Obj(page.keys[j])]
          IN  /\ calls' = Append(calls, Call("list_objects_v2", RestorePrefix, NoMd5,
                                               <<>>, "ok"))
              /\ object_list' = objs
              /\ IF page.truncated
                 THEN /\ pc' = "list"
                      /\ UNCHANGED <<idx, down>>
                 ELSE /\ pc' = "mkdir"
                      /\ idx' = 1
                      /\ total_download_size' = SumObjs(objs)
                      /\ bytes_downloaded' = 0
              /\ UNCHANGED <<log, notice, opsDone, faults>>
       \/ /\ faults < MaxFaults
          /\ faults' = faults + 1
          /\ \E o \in HeadFaults :
                /\ calls' = Append(calls, Call("list_objects_v2", RestorePrefix, NoMd5,
                                               <<>>, o))
                /\ CASE ListDecision(variant, o) = "raise" ->
                          /\ RestoreRaised
                          /\ UNCHANGED <<idx, down>>
                     [] ListDecision(variant, o) = "return" ->
                          /\ pc' = "idle"
                          /\ log' = log \o <<Line("error_listing", <<>>),
                                             Line("completed", <<>>)>>
                          /\ notice' = Append(notice, "info")
                          /\ opsDone' = Append(opsDone,
                                               Done("restore", "returned", faults + 1))
                          /\ UNCHANGED <<idx, down>>
                     [] OTHER ->
                          /\ pc' = "mkdir"
                          /\ idx' = 1
                          /\ total_download_size' = SumObjs(object_list)
                          /\ bytes_downloaded' = 0
                          /\ log' = Append(log, Line("error_listing", <<>>))
                          /\ UNCHANGED <<notice, opsDone>>
          /\ UNCHANGED object_list
    /\ UNCHANGED <<env, local, remote, dest, file_list, local_md5, up, edits>>

\* the for loop is exhausted: restore_backup returns, run_restore logs
\* completion and shows the info box
RestoreReturn ==
    /\ pc = "mkdir"
    /\ idx > Len(object_list)
    /\ pc' = "idle"
    /\ log' = Append(log, Line("completed", <<>>))
    /\ notice' = Append(notice, "info")
    /\ opsDone' = Append(opsDone, Done("restore", "returned", faults))
    /\ UNCHANGED <<env, local, remote, dest, file_list, object_list, idx, local_md5,
                   up, down, calls, faults, edits>>

CurPath == LocalPath(platform, CurKey, RestorePrefix)

\* os.makedirs(os.path.dirname(local_path), exist_ok=True), outside the try
Makedirs ==
    /\ pc = "mkdir"
    /\ idx <= Len(object_list)
    /\ \/ /\ calls' = Append(calls, Call("makedirs", CurKey, NoMd5,
                                           DirnameSegs(CurPath), "ok"))
          /\ pc' = "download"
          /\ UNCHANGED <<log, notice, opsDone, faults>>
       \/ /\ faults < MaxFaults
          /\ faults' = faults + 1
          /\ calls' = Append(calls, Call("makedirs", CurKey, NoMd5,
                                           DirnameSegs(CurPath), "error"))
          /\ RestoreRaised
    /\ UNCHANGED <<env, local, remote, dest, file_list, object_list, idx, local_md5,
                   up, down, edits>>

\* s3.download_file(bucket, s3_key, local_path, Callback=...)
DownloadFile ==
    /\ pc = "download"
    /\ \/ /\ calls' = Append(calls, Call("download_file", CurKey, NoMd5, CurPath, "ok"))
          /\ dest' = (CurPath :> remote[CurKey].content) @@ dest
          /\ bytes_downloaded' = bytes_downloaded + object_list[idx].size
          /\ log' = Append(log, Line("downloaded", CurKey))
          /\ idx' = NextItem(idx, "ok")
          /\ UNCHANGED faults
       \/ /\ faults < MaxFaults
          /\ faults' = faults + 1
          /\ calls' = Append(calls, Call("download_file", CurKey, NoMd5, CurPath, "error"))
          /\ \E n \in 0..object_list[idx].size : bytes_downloaded' = bytes_downloaded + n
          /\ log' = Append(log, Line("error_downloading", CurKey))
          /\ idx' = NextItem(idx, "error")
          /\ UNCHANGED dest
    /\ pc' = "mkdir"
    /\ UNCHANGED <<env, local, remote, file_list, object_list, local_md5, up,
                   total_download_size, notice, opsDone, edits>>

Next ==
    \/ StartBackup
    \/ ComputeMd5
    \/ HeadObject
    \/ UploadFile
    \/ BackupReturn
    \/ StartRestore
    \/ ListPage
    \/ Makedirs
    \/ DownloadFile
    \/ RestoreReturn
    \/ EditLocal

Spec == Init /\ [][Next]_vars

(***************************************************************************)
(* The upload pass beside a process that writes to the files: the file is  *)
(* read twice, by compute_md5 and later by upload_file.                    *)
(***************************************************************************)
\* another process rewrites the file the pass is at, after compute_md5 has
\* read it and before upload_file reads it
EditDuringPass ==
    /\ pc \in {"head", "upload"}
    /\ edits < MaxOps
    /\ \E c \in Contents \ {local[Cur]} : local' = [local EXCEPT ![Cur] = c]
    /\ edits' = edits + 1
    /\ UNCHANGED <<env, remote, dest, pc, file_list, object_list, idx, local_md5,
                   up, down, calls, log, notice, opsDone, faults>>

NextRace == Next \/ EditDuringPass

SpecRace == Init /\ [][NextRace]_vars

(***************************************************************************)
(* The key derivation on its own: two derivations for the same relative    *)
(* path under namespace strings the user typed.                            *)
(***************************************************************************)
NsChars == {"N", " ", "\\", "/"}

RECURSIVE StringsUpTo(_)
StringsUpTo(n) ==
    IF n = 0 THEN {<<>>}
    ELSE LET S == StringsUpTo(n - 1)
         IN  S \cup {Append(str, c) : str \in S, c \in NsChars}

NsStrings == StringsUpTo(MaxNsLen) \cup {DefaultNs}

InitKey ==
    /\ variant \in Variants
    /\ platform \in Platforms
    /\ entries = ValidEntries
    /\ GuiIdle
    /\ computer_id = <<>>
    /\ local = EmptyMap
    /\ remote = EmptyMap
    /\ dest = EmptyMap
    /\ pc = "idle"
    /\ file_list = <<>>
    /\ object_list = <<>>
    /\ idx = 0
    /\ local_md5 = NoMd5
    /\ total_size = 0
    /\ bytes_uploaded = 0
    /\ total_download_size = 0
    /\ bytes_downloaded = 0
    /\ calls = <<>>
    /\ log = <<>>
    /\ notice = <<>>
    /\ keys = <<>>
    /\ opsDone = <<>>
    /\ faults = 0
    /\ edits = 0

\* the namespace entry is set to ns and the pass derives the key of rel
DeriveKey ==
    /\ Len(keys) < 2
    /\ \E ns \in NsStrings : \E rel \in UNION TreeShapes(platform) :
          /\ keys # <<>> => rel = keys[1].rel_path
          /\ computer_id' = ns
          /\ keys' = Append(keys, [namespace |-> ns, rel_path |-> rel,
                                   s3_key |-> S3Key(variant, platform, ns, rel)])
    /\ UNCHANGED <<variant, platform, local, remote, dest, pc, file_list, object_list,
                   idx, local_md5, up, down, calls, log, notice, opsDone, faults,
                   edits, entries, gui>>

NextKey == DeriveKey

SpecKey == InitKey /\ [][NextKey]_vars

(***************************************************************************)
(* config.ini: written by save_config of a GUI program, read by            *)
(* load_config of the headless job, which derives its keys from it.        *)
(***************************************************************************)
\* the options of the Settings section that the job reads
ConfigKeys ==
    {"aws_access_key", "aws_secret_key", "bucket_name", "computer_id", "backup_dir",
     "restore_dir"}

\* a config.ini written by hand, with no computer_id option
HandWritten == [k \in ConfigKeys \ {"computer_id"} |-> Typed]

\* save_config: every option is written with the text of its entry
Saved(e, ns) ==
    [k \in ConfigKeys |->
        CASE k = "aws_access_key" -> e.access
          [] k = "aws_secret_key" -> e.secret
          [] k = "bucket_name" -> e.bucket
          [] k = "computer_id" -> ns
          [] k = "backup_dir" -> e.backup_dir
          [] k = "restore_dir" -> e.restore_dir]

\* settings.get(option, fallback): configparser strips the whitespace around
\* a value when it reads the file, and an option written with an empty value
\* is present, with the value ""
SettingsGet(cfg, option, fallback) ==
    IF option \in DOMAIN cfg THEN Strip(cfg[option]) ELSE fallback

\* load_config of the job: (access, secret, bucket, computer_id, backup_dir),
\* or None five times
LoadConfig(cfg) ==
    IF cfg = NoSettings
    THEN [computer_id |-> NoneVal, fields |-> [f \in FieldNames |-> NoneVal]]
    ELSE [computer_id |-> SettingsGet(cfg, "computer_id", DefaultNs),
          fields |->
             [f \in FieldNames |->
                 CASE f = "access" -> SettingsGet(cfg, "aws_access_key", <<>>)
                   [] f = "secret" -> SettingsGet(cfg, "aws_secret_key", <<>>)
                   [] f = "bucket" -> SettingsGet(cfg, "bucket_name", <<>>)
                   [] f = "backup_dir" -> SettingsGet(cfg, "backup_dir", <<>>)
                   [] f = "restore_dir" -> SettingsGet(cfg, "restore_dir", <<>>)]]

\* one derivation: the program, the namespace value it was given (None when
\* the option is absent), the relative path and the key
Derived(program, given, pf, ns, rel) ==
    [program |-> program, given |-> given, rel_path |-> rel,
     s3_key |-> S3Key(program, pf, ns, rel)]

InitConfig ==
    /\ variant \in GuiVariants
    /\ platform \in Platforms
    /\ computer_id \in NsStrings
    /\ entries = ValidEntries
    /\ config \in {NoSettings, HandWritten}
    /\ running = FALSE
    /\ threads = <<>>
    /\ scheduled_job = "None"
    /\ timer = FALSE
    /\ rows = <<>>
    /\ clicks = 0
    /\ local = EmptyMap
    /\ remote = EmptyMap
    /\ dest = EmptyMap
    /\ pc = "idle"
    /\ file_list = <<>>
    /\ object_list = <<>>
    /\ idx = 0
    /\ local_md5 = NoMd5
    /\ total_size = 0
    /\ bytes_uploaded = 0
    /\ total_download_size = 0
    /\ bytes_downloaded = 0
    /\ calls = <<>>
    /\ log = <<>>
    /\ notice = <<>>
    /\ keys = <<>>
    /\ opsDone = <<>>
    /\ faults = 0
    /\ edits = 0

\* what the config actions leave alone
fixed == <<variant, platform, computer_id, local, remote, dest, pc, file_list,
           object_list, idx, local_md5, up, down, calls, opsDone, faults, edits,
           entries, running, threads, scheduled_job, timer, rows, clicks>>

\* BackupFrame / S3BackupApp.save_config
SaveConfig ==
    /\ config # Saved(entries, computer_id)
    /\ config' = Saved(entries, computer_id)
    /\ log' = Append(log, Line("saved", <<>>))
    /\ notice' = Append(notice, "info")
    /\ UNCHANGED <<fixed, keys>>

\* a pass of the GUI program derives the key of a file
GuiDerive ==
    /\ \A k \in 1..Len(keys) : keys[k].program = "job"
    /\ \E rel \in UNION TreeShapes(platform) :
          keys' = Append(keys, Derived(variant, computer_id, platform, computer_id, rel))
    /\ UNCHANGED <<fixed, config, log, notice>>

\* main of the job: load_config, the guard, and the key backup_directory
\* derives for a file
JobDerive ==
    /\ \A k \in 1..Len(keys) : keys[k].program # "job"
    /\ LET loaded == LoadConfig(config)
           given  == IF config # NoSettings /\ "computer_id" \in DOMAIN config
                     THEN loaded.computer_id ELSE NoneVal
       IN  IF Guard("job", "backup", loaded.fields) # "ok"
           THEN /\ log' = Append(log, Line("error_config", <<>>))
                /\ UNCHANGED keys
           ELSE /\ \E rel \in UNION TreeShapes(platform) :
                      keys' = Append(keys, Derived("job", given, platform,
                                                   loaded.computer_id, rel))
                /\ UNCHANGED log
    /\ Len(log) < 3
    /\ UNCHANGED <<fixed, config, notice>>

NextConfig == SaveConfig \/ GuiDerive \/ JobDerive

SpecConfig == InitConfig /\ [][NextConfig]_vars

(***************************************************************************)
(* The windows: the threads started from the UI, the Browse & Restore      *)
(* frame of S3Sync.py and the scheduler of Ver4.2.py.                      *)
(***************************************************************************)
\* a thread of control that runs a pass: what it runs, whether it is a
\* threading.Thread ("worker") or the Tk main loop inside a callback ("ui"),
\* where it stands, and for restore_selected_files its selected_items and the
\* position of its for loop.  cancelled and late are history: a click has
\* cleared the running flag while the thread was alive, and the number of
\* items the thread has gone on to after that.
Thread(kind, on, at) ==
    [kind |-> kind, on |-> on, at |-> at, items |-> <<>>, i |-> 0,
     cancelled |-> FALSE, late |-> 0]

Live(t) == threads[t].at # "done"

\* the Tk main loop is not inside a callback
UiFree == \A t \in DOMAIN threads : threads[t].on = "ui" => ~Live(t)

\* the main loop takes one action of the user
UserActs == UiFree /\ clicks < MaxClicks /\ clicks' = clicks + 1

\* what no thread and no callback of the windows writes
still == <<variant, platform, computer_id, local, remote, pc, file_list, object_list,
           idx, local_md5, up, total_download_size, keys, opsDone, edits, entries,
           config>>

\* a call made by thread t (0: the main loop) for item i of its loop
CallBy(t, i, op, item, path, res) ==
    [op |-> op, i |-> i, item |-> item, md5 |-> NoMd5, path |-> path, res |-> res,
     by |-> t]

\* BackupFrame / S3BackupApp.start_backup_thread and start_restore_thread:
\* threading.Thread(target=self.run_backup, daemon=True).start()
StartThread(kind) ==
    /\ variant \in GuiVariants
    /\ UserActs
    /\ threads' = Append(threads, Thread(kind, "worker", "pass"))
    /\ UNCHANGED <<still, dest, bytes_downloaded, calls, log, notice, faults, running,
                   scheduled_job, timer, rows>>

StartBackupThread == StartThread("backup")

StartRestoreThread == StartThread("restore")

\* run_backup / run_restore on the thread that called it: the pass, then the
\* completion line and the info box, or the error line and the error box
\* when the pass raised.  scheduled_backup goes on to re-arm the timer.
RunPass(t) ==
    /\ threads[t].at = "pass"
    /\ threads' = [threads EXCEPT
                     ![t].at = IF threads[t].kind = "scheduled" THEN "rearm" ELSE "done"]
    /\ \/ /\ log' = log \o <<Line("start", <<>>), Line("completed", <<>>)>>
          /\ notice' = Append(notice, "info")
       \/ /\ log' = log \o <<Line("start", <<>>), Line("run_error", <<>>)>>
          /\ notice' = Append(notice, "error")
    /\ UNCHANGED <<still, dest, bytes_downloaded, calls, faults, running,
                   scheduled_job, timer, rows, clicks>>

\* the prefix BrowseRestoreFrame lists, f"backup/{computer_folder}/", and the
\* start restore_selected_files strips, f"backup/{computer_folder}"
BrowsePrefix == Prefix(ComputerFolder(variant, computer_id))

BrowseStart == BackupLit \o ComputerFolder(variant, computer_id)

\* the number of pages the paginator goes through for n keys
Pages(n) == IF n = 0 THEN 1 ELSE (n + PageSize - 1) \div PageSize

\* the first n elements of a sequence
Take(q, n) == SubSeq(q, 1, IF n < Len(q) THEN n ELSE Len(q))

\* BrowseRestoreFrame.refresh_file_list, a callback of the main loop.  The
\* bucket is not looked at before paginate is called; an empty Bucket makes
\* the SDK raise from that call.
RefreshFileList ==
    /\ variant = "S3Sync"
    /\ UserActs
    /\ IF Guard(variant, "refresh", entries) # "ok"
       THEN /\ notice' = Append(notice, "error")
            /\ UNCHANGED <<rows, calls, log, faults>>
       ELSE LET all == Listing(remote, BrowsePrefix)
                ok  == CallBy(0, 0, "list_objects_v2", BrowsePrefix, <<>>, "ok")
                bad == CallBy(0, 0, "list_objects_v2", BrowsePrefix, <<>>, "other_error")
            IN  \/ /\ Strip(entries.bucket) # <<>>
                   /\ calls' = calls \o [j \in 1..Pages(Len(all)) |-> ok]
                   /\ rows' = [j \in 1..Len(all) |-> Obj(all[j])]
                   /\ log' = Append(log, Line("refreshed", <<>>))
                   /\ UNCHANGED <<notice, faults>>
                \/ /\ Strip(entries.bucket) = <<>> \/ faults < MaxFaults
                   /\ faults' = IF Strip(entries.bucket) = <<>> THEN faults ELSE faults + 1
                   /\ \E k \in 0..(IF Strip(entries.bucket) = <<>>
                                   THEN 0 ELSE Pages(Len(all)) - 1) :
                         /\ calls' = calls \o [j \in 1..k |-> ok] \o <<bad>>
                         /\ rows' = [j \in 1..Len(Take(all, k * PageSize)) |-> Obj(all[j])]
                   /\ log' = Append(log, Line("error_refreshing", <<>>))
                   /\ notice' = Append(notice, "error")
    /\ UNCHANGED <<still, dest, bytes_downloaded, running, threads, scheduled_job, timer>>

\* BrowseRestoreFrame.start_restore_thread: the button starts a batch when
\* the flag is clear, and clears the flag when it is set
BrowseStartRestoreThread ==
    /\ variant = "S3Sync"
    /\ UserActs
    /\ IF ~running
       THEN /\ running' = TRUE
            /\ threads' = Append(threads, Thread("selective", "worker", "guard"))
       ELSE /\ running' = FALSE
            /\ threads' = [t \in DOMAIN threads |->
                             IF threads[t].kind = "selective" /\ Live(t)
                             THEN [threads[t] EXCEPT !.cancelled = TRUE]
                             ELSE threads[t]]
    /\ UNCHANGED <<still, dest, bytes_downloaded, calls, log, notice, faults,
                   scheduled_job, timer, rows>>

\* the rows of q at the positions I, in the order of q
RECURSIVE Sel(_, _, _)
Sel(q, I, n) ==
    IF n = 0 THEN <<>>
    ELSE IF n \in I THEN Append(Sel(q, I, n - 1), q[n]) ELSE Sel(q, I, n - 1)

\* self.tree.selection(): any of the rows, in the order of the tree
Selections(q) == {Sel(q, I, Len(q)) : I \in SUBSET (1..Len(q))}

\* restore_selected_files up to its for loop: the selection, the restore
\* directory and the credentials are looked at, the bucket is not
SelectedGuard(t) ==
    /\ threads[t].at = "guard"
    /\ \E sel \in Selections(rows) :
          IF sel = <<>>
          THEN /\ notice' = Append(notice, "warning")
               /\ threads' = [threads EXCEPT ![t].at = "finally"]
               /\ UNCHANGED <<bytes_downloaded, running>>
          ELSE IF Guard(variant, "selective", entries) # "ok"
          THEN /\ notice' = Append(notice, "error")
               /\ threads' = [threads EXCEPT ![t].at = "finally"]
               /\ UNCHANGED <<bytes_downloaded, running>>
          ELSE /\ threads' = [threads EXCEPT ![t].items = sel, ![t].i = 1,
                                              ![t].at = "check"]
               /\ bytes_downloaded' = 0
               /\ UNCHANGED <<notice, running>>
    /\ UNCHANGED <<still, dest, calls, log, faults, scheduled_job, timer, rows, clicks>>

\* for item in selected_items: if not self.running: break
SelectedCheck(t) ==
    /\ threads[t].at = "check"
    /\ threads' =
          IF threads[t].i > Len(threads[t].items) \/ ~running
          THEN [threads EXCEPT ![t].at = "end"]
          ELSE [threads EXCEPT ![t].at = "mkdir",
                               ![t].late = @ + (IF threads[t].cancelled THEN 1 ELSE 0)]
    /\ UNCHANGED <<still, dest, bytes_downloaded, calls, log, notice, faults, running,
                   scheduled_job, timer, rows, clicks>>

\* the path restore_selected_files downloads the current item to
SelectedPath(t) ==
    LocalPath(platform, threads[t].items[threads[t].i].key, BrowseStart)

\* os.makedirs(os.path.dirname(local_path), exist_ok=True): inside the outer
\* try only, so that its exception ends the batch through except and finally
SelectedMakedirs(t) ==
    /\ threads[t].at = "mkdir"
    /\ LET key == threads[t].items[threads[t].i].key
       IN  \/ /\ calls' = Append(calls, CallBy(t, threads[t].i, "makedirs", key,
                                                DirnameSegs(SelectedPath(t)), "ok"))
              /\ threads' = [threads EXCEPT ![t].at = "download"]
              /\ UNCHANGED <<log, notice, faults, running>>
           \/ /\ faults < MaxFaults
              /\ faults' = faults + 1
              /\ calls' = Append(calls, CallBy(t, threads[t].i, "makedirs", key,
                                                DirnameSegs(SelectedPath(t)), "error"))
              /\ log' = Append(log, Line("run_error", <<>>))
              /\ notice' = Append(notice, "error")
              /\ threads' = [threads EXCEPT ![t].at = "finally"]
              /\ UNCHANGED running
    /\ UNCHANGED <<still, dest, bytes_downloaded, scheduled_job, timer, rows, clicks>>

\* s3.download_file(bucket, s3_key, local_path, Callback=...) in its own try
SelectedDownload(t) ==
    /\ threads[t].at = "download"
    /\ LET item == threads[t].items[threads[t].i]
       IN  \/ /\ Strip(entries.bucket) # <<>>
              /\ item.key \in DOMAIN remote
              /\ calls' = Append(calls, CallBy(t, threads[t].i, "download_file", item.key,
                                                SelectedPath(t), "ok"))
              /\ dest' = (SelectedPath(t) :> remote[item.key].content) @@ dest
              /\ bytes_downloaded' = bytes_downloaded + item.size
              /\ log' = Append(log, Line("downloaded", item.key))
              /\ threads' = [threads EXCEPT ![t].i = NextItem(@, "ok"),
                                              ![t].at = "check"]
              /\ UNCHANGED faults
           \/ /\ Strip(entries.bucket) = <<>> \/ faults < MaxFaults
              /\ faults' = IF Strip(entries.bucket) = <<>> THEN faults ELSE faults + 1
              /\ calls' = Append(calls, CallBy(t, threads[t].i, "download_file", item.key,
                                                SelectedPath(t), "error"))
              /\ log' = Append(log, Line("error_downloading", item.key))
              /\ threads' = [threads EXCEPT ![t].i = NextItem(@, "error"),
                                              ![t].at = "check"]
              /\ UNCHANGED <<dest, bytes_downloaded>>
    /\ UNCHANGED <<still, notice, running, scheduled_job, timer, rows, clicks>>

\* after the loop: the info box when the flag is still set, then
\* self.running = False
SelectedEnd(t) ==
    /\ threads[t].at = "end"
    /\ notice' = IF running THEN Append(notice, "info") ELSE notice
    /\ running' = FALSE
    /\ threads' = [threads EXCEPT ![t].at = "finally"]
    /\ UNCHANGED <<still, dest, bytes_downloaded, calls, log, faults, scheduled_job,
                   timer, rows, clicks>>

\* a finally block that leaves the flag as it finds it
SelectedFinallyKeep(t) ==
    /\ threads[t].at = "finally"
    /\ threads' = [threads EXCEPT ![t].at = "done"]
    /\ UNCHANGED <<still, dest, bytes_downloaded, calls, log, notice, faults,
                   scheduled_job, timer, rows, clicks, running>>

\* finally: self.running = False, on every way out of the function
SelectedFinally(t) ==
    /\ threads[t].at = "finally"
    /\ running' = FALSE
    /\ threads' = [threads EXCEPT ![t].at = "done"]
    /\ UNCHANGED <<still, dest, bytes_downloaded, calls, log, notice, faults,
                   scheduled_job, timer, rows, clicks>>

\* what the user may have typed into entry_interval
IntervalInputs == {<<"6", "0">>, <<"x">>, <<>>}

\* int(s) does not raise ValueError
IsInt(str) ==
    /\ Strip(str) # <<>>
    /\ \A j \in 1..Len(Strip(str)) :
          Strip(str)[j] \in {"0", "1", "2", "3", "4", "5", "6", "7", "8", "9"}

\* the body of S3BackupApp.start_scheduled_backup for the interval typed
Arm(interval) ==
    IF scheduled_job # "None"
    THEN /\ notice' = Append(notice, "info")
         /\ UNCHANGED <<scheduled_job, timer, log>>
    ELSE IF ~IsInt(interval)
    THEN /\ notice' = Append(notice, "error")
         /\ UNCHANGED <<scheduled_job, timer, log>>
    ELSE /\ scheduled_job' = "after#1"
         /\ timer' = TRUE
         /\ log' = Append(log, Line("scheduled", <<>>))
         /\ UNCHANGED notice

\* the Start button of the scheduler
StartScheduledBackup ==
    /\ variant = "Ver42"
    /\ UserActs
    /\ \E interval \in IntervalInputs : Arm(interval)
    /\ UNCHANGED <<still, dest, bytes_downloaded, calls, faults, running, threads, rows>>

\* S3BackupApp.stop_scheduled_backup
StopScheduledBackup ==
    /\ variant = "Ver42"
    /\ UserActs
    /\ IF scheduled_job # "None"
       THEN /\ scheduled_job' = "None"
            /\ timer' = FALSE
            /\ log' = Append(log, Line("stopped", <<>>))
       ELSE UNCHANGED <<scheduled_job, timer, log>>
    /\ UNCHANGED <<still, dest, bytes_downloaded, calls, notice, faults, running,
                   threads, rows>>

\* the main loop calls scheduled_backup when the after() delay is over:
\* self.run_backup() runs in the callback itself
ScheduledBackup ==
    /\ variant = "Ver42"
    /\ timer
    /\ UiFree
    /\ timer' = FALSE
    /\ threads' = Append(threads, Thread("scheduled", "ui", "pass"))
    /\ UNCHANGED <<still, dest, bytes_downloaded, calls, log, notice, faults, running,
                   scheduled_job, rows, clicks>>

\* scheduled_backup after run_backup has returned:
\* self.start_scheduled_backup()  # Reschedule
Reschedule(t) ==
    /\ threads[t].at = "rearm"
    /\ \E interval \in IntervalInputs : Arm(interval)
    /\ threads' = [threads EXCEPT ![t].at = "done"]
    /\ UNCHANGED <<still, dest, bytes_downloaded, calls, faults, running, rows, clicks>>

\* the objects of the bucket the windows are run against
GuiBucket ==
    [k \in {S3Key("S3Sync", "posix", <<>>, <<"a">>),
            S3Key("S3Sync", "posix", <<>>, <<"s", "/", "b">>)} |->
        Uploaded("x", Md5("x"))]

InitGui ==
    /\ variant \in GuiVariants
    /\ platform \in Platforms
    /\ computer_id = <<>>
    \* the frame is run with every field filled in, or with the bucket, the
    \* restore directory or the access key left empty
    /\ entries \in {e \in EntrySets(variant) :
                       /\ variant = "Ver42" => e = ValidEntries
                       /\ e.backup_dir = Typed /\ e.secret = Typed
                       /\ \A f \in FieldNames : e[f] \in {Typed, <<>>}}
    /\ GuiIdle
    /\ local = EmptyMap
    /\ remote = GuiBucket
    /\ dest = EmptyMap
    /\ pc = "idle"
    /\ file_list = <<>>
    /\ object_list = <<>>
    /\ idx = 0
    /\ local_md5 = NoMd5
    /\ total_size = 0
    /\ bytes_uploaded = 0
    /\ total_download_size = 0
    /\ bytes_downloaded = 0
    /\ calls = <<>>
    /\ log = <<>>
    /\ notice = <<>>
    /\ keys = <<>>
    /\ opsDone = <<>>
    /\ faults = 0
    /\ edits = 0

NextGui ==
    \/ StartBackupThread
    \/ StartRestoreThread
    \/ RefreshFileList
    \/ BrowseStartRestoreThread
    \/ StartScheduledBackup
    \/ StopScheduledBackup
    \/ ScheduledBackup
    \/ \E t \in DOMAIN threads :
          \/ RunPass(t)
          \/ SelectedGuard(t)
          \/ SelectedCheck(t)
          \/ SelectedMakedirs(t)
          \/ SelectedDownload(t)
          \/ SelectedEnd(t)
          \/ SelectedFinally(t)
          \/ Reschedule(t)

SpecGui == InitGui /\ [][NextGui]_vars

(***************************************************************************)
(* Reading the trace of the current run.                                   *)
(***************************************************************************)
Last(q) == q[Len(q)]

\* calls, log and idx describe an upload pass (running, or the last run ended)
BackupTrace ==
    \/ pc \in {"md5", "head", "upload"}
    \/ /\ pc = "idle" /\ opsDone # <<>>
       /\ Last(opsDone).kind = "backup" /\ Last(opsDone).outcome # "rejected"

\* calls, log and idx describe a restore pass
RestoreTrace ==
    \/ pc \in {"list", "mkdir", "download"}
    \/ /\ pc = "idle" /\ opsDone # <<>>
       /\ Last(opsDone).kind = "restore" /\ Last(opsDone).outcome # "rejected"

\* the local tree is still the one the current run enumerated
Unedited == pc # "idle" \/ (opsDone # <<>> /\ edits = Last(opsDone).edits)

CallsOf(op, i) == {j \in 1..Len(calls) : calls[j].op = op /\ calls[j].i = i}

CallsTo(op) == {j \in 1..Len(calls) : calls[j].op = op}

\* the fingerprint and size of the i-th enumerated file, read from the tree
FileMd5(i) == Md5(local[file_list[i]])

FileSize(i) == SizeOf(local[file_list[i]])

\* head_object answered for file i with the file's own fingerprint
HeadMatched(i) ==
    \E j \in CallsOf("head_object", i) :
        calls[j].res = "ok" /\ calls[j].md5 = FileMd5(i)

\* head_object answered not-found, or with a missing or different fingerprint
HeadStale(i) ==
    \E j \in CallsOf("head_object", i) :
        calls[j].res = "404" \/ (calls[j].res = "ok" /\ calls[j].md5 # FileMd5(i))

UploadedOk(i) == \E j \in CallsOf("upload_file", i) : calls[j].res = "ok"

RECURSIVE SizeSum(_)
SizeSum(I) ==
    IF I = {} THEN 0
    ELSE LET i == CHOOSE x \in I : TRUE IN FileSize(i) + SizeSum(I \ {i})

(***************************************************************************)
(* C1                                                                      *)
(***************************************************************************)
\* C1: a file whose head_object succeeds with a file_md5 equal to the local
\* MD5 gets no upload_file call in the pass, and in the GUI programs the
\* skip adds exactly the file's size to bytes_uploaded: while no upload has
\* failed, the counter is the sum of the sizes of the skipped and the
\* uploaded files.
Thm_C1 ==
    (BackupTrace /\ Unedited) =>
        /\ \A i \in 1..Len(file_list) :
              HeadMatched(i) => CallsOf("upload_file", i) = {}
        /\ (variant \in GuiVariants
              /\ \A j \in CallsTo("upload_file") : calls[j].res = "ok")
           => bytes_uploaded =
                 SizeSum({i \in 1..Len(file_list) : HeadMatched(i) \/ UploadedOk(i)})

\* a GUI pass has skipped a file and counted its bytes
Wit_C1 ==
    /\ BackupTrace /\ Unedited
    /\ variant \in GuiVariants
    /\ pc = "idle"
    /\ \E i \in 1..Len(file_list) : HeadMatched(i)
    /\ bytes_uploaded = total_size
    /\ total_size > 0

(***************************************************************************)
(* C2                                                                      *)
(***************************************************************************)
\* C2: once the pass has handled a file whose head_object answered not-found
\* or with a missing or different file_md5, it has called upload_file exactly
\* once for it, with the derived key and Metadata file_md5 = the local MD5;
\* and the object under a key holds the content and the fingerprint of the
\* last upload that succeeded for that key.
Thm_C2 ==
    (BackupTrace /\ Unedited) =>
        /\ \A i \in 1..Len(file_list) :
              (i < idx /\ HeadStale(i)) =>
                  /\ Cardinality(CallsOf("upload_file", i)) = 1
                  /\ \A j \in CallsOf("upload_file", i) :
                        /\ calls[j].item = KeyOf(file_list[i])
                        /\ calls[j].md5 = FileMd5(i)
        /\ \A j \in CallsTo("upload_file") :
              (calls[j].res = "ok"
                 /\ \A k \in CallsTo("upload_file") :
                       (k > j /\ calls[k].item = calls[j].item) => calls[k].res # "ok")
              => /\ calls[j].item \in DOMAIN remote
                 /\ remote[calls[j].item] =
                       [content |-> local[file_list[calls[j].i]],
                        md5 |-> FileMd5(calls[j].i)]

\* a pass has found an object carrying another fingerprint and replaced it
Wit_C2 ==
    /\ BackupTrace /\ Unedited
    /\ \E i \in 1..Len(file_list) :
          /\ \E j \in CallsOf("head_object", i) :
                calls[j].res = "ok" /\ calls[j].md5 \notin {NoMd5, FileMd5(i)}
          /\ UploadedOk(i)
          /\ remote[KeyOf(file_list[i])].md5 = FileMd5(i)

(***************************************************************************)
(* C3                                                                      *)
(***************************************************************************)
\* C3: when head_object for a file fails for a reason other than not-found,
\* an error line naming the file or its key is logged, no upload_file call is
\* made for the file, and the pass has moved on to the next file.
Cex_C3 ==
    BackupTrace =>
        \A i \in 1..Len(file_list) :
            (\E j \in CallsOf("head_object", i) : calls[j].res \in HeadFaults) =>
                /\ \E l \in 1..Len(log) :
                      /\ log[l].kind \in {"error_checking", "error_uploading"}
                      /\ log[l].item \in {file_list[i], KeyOf(file_list[i])}
                /\ CallsOf("upload_file", i) = {}
                /\ pc # "upload"
                /\ idx > i

(***************************************************************************)
(* C4                                                                      *)
(***************************************************************************)
\* C4: a failure while handling one file never stops the traversal: when the
\* pass has ended, every enumerated file other than one whose own fingerprint
\* or head_object call raised has had its head_object attempt.
Cex_C4 ==
    (BackupTrace /\ pc = "idle") =>
        \A i \in 1..Len(file_list) :
            i # idx => CallsOf("head_object", i) # {}

(***************************************************************************)
(* C5                                                                      *)
(***************************************************************************)
\* the calls that had failed when run k started, and whether run k saw none
FaultsBefore(k) == IF k = 1 THEN 0 ELSE opsDone[k - 1].faults

Returned(k) == opsDone[k].outcome = "returned"

Clean(k) == opsDone[k].faults = FaultsBefore(k) /\ Returned(k)

\* the last run was an upload pass, an upload pass had run before it, and
\* the local tree has not been edited since that earlier pass started
SecondPass(k) ==
    /\ pc = "idle"
    /\ k \in 1..(Len(opsDone) - 1)
    /\ opsDone[k].kind = "backup"
    /\ Last(opsDone).kind = "backup"
    /\ \A m \in (k + 1)..(Len(opsDone) - 1) : opsDone[m].kind = "restore"
    /\ edits = opsDone[k].edits

\* no two files of the tree derive the same key
KeysDistinct == \A f, g \in DOMAIN local : f # g => KeyOf(f) # KeyOf(g)

RoundTrip ==
    /\ pc = "idle"
    /\ Len(opsDone) >= 2
    /\ Last(opsDone).kind = "restore"
    /\ \A m \in 1..(Len(opsDone) - 1) : opsDone[m].kind = "backup"
    /\ edits = opsDone[Len(opsDone) - 1].edits
    /\ Returned(Len(opsDone) - 1)
    /\ Clean(Len(opsDone))

\* restore_dir/<rel_path> exists and holds the bytes of the original file
Restored(f) ==
    /\ RelSegs(platform, f) \in DOMAIN dest
    /\ dest[RelSegs(platform, f)] = local[f]

HasBackslash(str) == \E i \in 1..Len(str) : str[i] = "\\"

NormNs(v, ns) == ReplaceBackslash(ComputerFolder(v, ns))

\* C7 as stated: no derived key contains a backslash, and the keys derived
\* for one relative path under two different namespace strings differ.
Cex_C7 ==
    /\ \A i \in 1..Len(keys) : ~HasBackslash(keys[i].s3_key)
    /\ \A i, j \in 1..Len(keys) :
          (keys[i].namespace # keys[j].namespace /\ keys[i].rel_path = keys[j].rel_path)
          => keys[i].s3_key # keys[j].s3_key

\* C7 as amended: no derived key contains a backslash, and the keys derived
\* for one relative path under two namespace strings differ whenever the
\* strings still differ after the program's own normalisation (in the GUI
\* programs surrounding whitespace stripped and an empty value replaced by
\* Default; in every program backslashes replaced by forward slashes).
Thm_C7 ==
    /\ \A i \in 1..Len(keys) : ~HasBackslash(keys[i].s3_key)
    /\ \A i, j \in 1..Len(keys) :
          (/\ NormNs(variant, keys[i].namespace) # NormNs(variant, keys[j].namespace)
           /\ keys[i].rel_path = keys[j].rel_path)
          => keys[i].s3_key # keys[j].s3_key

\* a Windows relative path has been keyed under two namespaces that differ
Wit_C7 ==
    /\ Len(keys) = 2
    /\ HasBackslash(keys[1].rel_path)
    /\ platform = "nt"
    /\ NormNs(variant, keys[1].namespace) # NormNs(variant, keys[2].namespace)
    /\ StartsWith(keys[2].s3_key, BackupLit)
    /\ keys[1].s3_key # keys[2].s3_key

(***************************************************************************)
(* C8                                                                      *)
(***************************************************************************)
\* the listing of the current restore pass went through, page after page
ListingOk == \A j \in CallsTo("list_objects_v2") : calls[j].res = "ok"

IsDownload(c) == c.op = "download_file"

\* the key without its prefix, joined under restore_dir
StripJoin(key, prefix) == RelSegs(platform, SubSeq(key, Len(prefix) + 1, Len(key)))

\* C8: the restore pass drains every page before any download and then
\* issues exactly one download_file call per listed object, in listing order,
\* to restore_dir joined with the key stripped of backup/<namespace>/, each
\* right after the makedirs call for that path's parent.
Cex_C8 ==
    (RestoreTrace /\ pc = "idle" /\ ListingOk) =>
        LET d == SelectSeq(calls, IsDownload)
        IN  /\ [i \in 1..Len(object_list) |-> object_list[i].key]
                  = Listing(remote, RestorePrefix)
            /\ \A j \in CallsTo("list_objects_v2") : \A k \in CallsTo("download_file") :
                  j < k
            /\ Len(d) = Len(object_list)
            /\ \A i \in 1..Len(d) :
                  /\ d[i].item = object_list[i].key
                  /\ d[i].path = StripJoin(d[i].item, RestorePrefix)
            /\ \A k \in CallsTo("download_file") :
                  /\ k > 1
                  /\ calls[k - 1].op = "makedirs"
                  /\ calls[k - 1].item = calls[k].item
                  /\ calls[k - 1].path = DirnameSegs(calls[k].path)

(***************************************************************************)
(* C9                                                                      *)
(***************************************************************************)
\* C9: a failure while restoring one object (makedirs or download_file
\* raising) is logged and does not keep any other listed object from getting
\* its own download attempt.
Cex_C9 ==
    (RestoreTrace /\ pc = "idle" /\ ListingOk) =>
        /\ \A j \in CallsTo("makedirs") \cup CallsTo("download_file") :
              calls[j].res = "error" =>
                  \E l \in 1..Len(log) : log[l].kind \in {"run_error", "error_downloading"}
        /\ \A i \in 1..Len(object_list) :
              (\A j \in CallsOf("makedirs", i) : calls[j].res = "ok")
              => CallsOf("download_file", i) # {}

(***************************************************************************)
(* C10                                                                     *)
(***************************************************************************)
\* C10: once a page of the listing has failed, the restore pass is over,
\* without a single makedirs or download_file call: no local directory or
\* file is created or overwritten.
Thm_C10 ==
    (RestoreTrace /\ \E j \in CallsTo("list_objects_v2") : calls[j].res \in HeadFaults)
    => /\ pc = "idle"
       /\ CallsTo("makedirs") = {}
       /\ CallsTo("download_file") = {}

\* the second page failed after the first had been returned
Wit_C10 ==
    /\ RestoreTrace
    /\ Len(calls) = 2
    /\ calls[1].op = "list_objects_v2" /\ calls[1].res = "ok"
    /\ calls[2].op = "list_objects_v2" /\ calls[2].res \in HeadFaults
    /\ object_list # <<>>
    /\ pc = "idle"

(***************************************************************************)
(* C11                                                                     *)
(***************************************************************************)
\* C11: once a click on the restore button has cleared the running flag
\* while a batch of restore_selected_files is in progress, the worker of
\* that batch goes on to no further item: it passes the flag check of its
\* for loop for none of the remaining items after that click.
Cex_C11 ==
    \A t \in DOMAIN threads :
        (threads[t].kind = "selective" /\ threads[t].cancelled) => threads[t].late = 0

(***************************************************************************)
(* C12                                                                     *)
(***************************************************************************)
SdkOps == {"head_object", "upload_file", "list_objects_v2", "download_file"}

\* C12: a storage SDK call (head_object, upload_file, a page of
\* list_objects_v2, download_file) is only ever made with the access key,
\* the secret key and the bucket name filled in, and with the directory the
\* operation reads from or writes to filled in.
Cex_C12 ==
    \A j \in 1..Len(calls) :
        calls[j].op \in SdkOps =>
            /\ ~Falsy(entries.access)
            /\ ~Falsy(entries.secret)
            /\ ~Falsy(entries.bucket)
            /\ calls[j].op \in {"head_object", "upload_file"} => ~Falsy(entries.backup_dir)
            /\ calls[j].op = "download_file" => ~Falsy(entries.restore_dir)

(***************************************************************************)
(* C13                                                                     *)
(***************************************************************************)
\* C13: a key derived while the namespace is unspecified (the entry is
\* empty, or the computer_id option of config.ini is absent or empty) has
\* the form backup/Default/<relative-path>, in the GUI programs and in the
\* job alike.
Cex_C13 ==
    \A k \in 1..Len(keys) :
        Falsy(keys[k].given) =>
            keys[k].s3_key =
                Prefix(DefaultNs) \o ReplaceBackslash(keys[k].rel_path)

(***************************************************************************)
(* C14                                                                     *)
(***************************************************************************)
\* the worker threads of one operation type that have not finished
Workers(kind) ==
    {t \in DOMAIN threads :
        threads[t].kind = kind /\ threads[t].on = "worker" /\ Live(t)}

\* C14: at any time at most one worker thread of each operation type
\* (upload pass, restore pass, selective restore) is running.
Cex_C14 ==
    \A kind \in {"backup", "restore", "selective"} : Cardinality(Workers(kind)) <= 1

(***************************************************************************)
(* C15                                                                     *)
(***************************************************************************)
\* C15: every upload pass, restore pass and scheduled backup pass runs on a
\* worker thread, never on the Tk main-loop thread.
Cex_C15 ==
    \A t \in DOMAIN threads :
        threads[t].kind \in {"backup", "restore", "scheduled"} => threads[t].on = "worker"

(***************************************************************************)
(* C16                                                                     *)
(***************************************************************************)
\* C16: the scheduled backup is recurring: from the moment
\* start_scheduled_backup has been accepted until stop_scheduled_backup is
\* invoked, either a scheduled pass is running or the timer is armed for the
\* next one.
Cex_C16 ==
    (/\ scheduled_job # "None"
     /\ \A t \in DOMAIN threads : threads[t].kind = "scheduled" => ~Live(t))
    => timer

(***************************************************************************)
(* C17                                                                     *)
(***************************************************************************)
\* the last run of a GUI program failed as a whole: a guard turned it away,
\* or a page of the restore listing failed
WholeFailure ==
    /\ variant \in GuiVariants
    /\ pc = "idle"
    /\ opsDone # <<>>
    /\ \/ Last(opsDone).outcome = "rejected"
       \/ /\ Last(opsDone).kind = "restore"
          /\ \E j \in CallsTo("list_objects_v2") : calls[j].res \in HeadFaults

\* C17: a run that failed as a whole has logged an error line and shown an
\* error box, and has neither logged 'completed successfully' nor shown the
\* success box.
Cex_C17 ==
    WholeFailure =>
        /\ \E l \in 1..Len(log) : log[l].kind \in {"error_listing", "run_error"}
        /\ \E n \in 1..Len(notice) : notice[n] = "error"
        /\ \A l \in 1..Len(log) : log[l].kind # "completed"
        /\ \A n \in 1..Len(notice) : notice[n] # "info"

Cex_C19 ==
    variant = "job" =>
        /\ pc # "idle" => notice = <<>>
        /\ (pc = "idle" /\ opsDone # <<>>) =>
              IF Last(opsDone).outcome = "rejected"
              THEN calls = <<>> /\ notice = <<>>
              ELSE notice = <<"info">>

(***************************************************************************)
(* C20                                                                     *)
(***************************************************************************)
\* C20: every object an upload pass has written carries a file_md5 equal to
\* the MD5 of the content stored with it, also when the local file is
\* rewritten between compute_md5 and upload_file.
Cex_C20 ==
    \A k \in DOMAIN remote :
        remote[k].md5 # NoMd5 => remote[k].md5 = Md5(remote[k].content)


\* ---------------------------------------------------------------------------
\* The Browse & Restore frame of S3Sync.py on its own, with the User Directory
\* entry of the backup tab edited between the callbacks.

\* the number of actions the user takes on the frame
MaxBrowseClicks == 3

\* what the user types into entry_computer_id
NsEdits == {<<>>, <<"N">>}

\* the user edits the User Directory entry; refresh_file_list and
\* restore_selected_files read it with .get() each time they run
EditNamespace ==
    /\ variant = "S3Sync"
    /\ UserActs
    /\ \E ns \in NsEdits \ {computer_id} : computer_id' = ns
    /\ UNCHANGED <<variant, platform, local, remote, dest, pc, file_list, object_list,
                   idx, local_md5, up, down, calls, log, notice, keys, opsDone,
                   faults, edits, entries, config, running, threads, scheduled_job,
                   timer, rows>>

InitBrowse ==
    /\ variant = "S3Sync"
    /\ platform \in Platforms
    /\ computer_id \in NsEdits
    /\ entries \in {e \in EntrySets(variant) :
                       \/ e = ValidEntries
                       \/ e = [ValidEntries EXCEPT !.restore_dir = <<>>]}
    /\ GuiIdle
    /\ local = EmptyMap
    /\ remote = GuiBucket
    /\ dest = EmptyMap
    /\ pc = "idle"
    /\ file_list = <<>>
    /\ object_list = <<>>
    /\ idx = 0
    /\ local_md5 = NoMd5
    /\ total_size = 0
    /\ bytes_uploaded = 0
    /\ total_download_size = 0
    /\ bytes_downloaded = 0
    /\ calls = <<>>
    /\ log = <<>>
    /\ notice = <<>>
    /\ keys = <<>>
    /\ opsDone = <<>>
    /\ faults = 0
    /\ edits = 0

NextBrowse ==
    \/ clicks < MaxBrowseClicks /\ RefreshFileList
    \/ clicks < MaxBrowseClicks /\ EditNamespace
    \/ clicks < MaxBrowseClicks /\ BrowseStartRestoreThread
    \/ \E t \in DOMAIN threads :
          \/ SelectedGuard(t)
          \/ SelectedCheck(t)
          \/ SelectedMakedirs(t)
          \/ SelectedDownload(t)
          \/ SelectedEnd(t)
          \/ SelectedFinally(t)

SpecBrowse == InitBrowse /\ [][NextBrowse]_vars

\* ---------------------------------------------------------------------------
\* Upload passes of one frame run by several workers.  file_list, the loop
\* position and local_md5 are locals of each call of backup_directory (items
\* and i of the thread); self.total_size and self.bytes_uploaded belong to
\* the frame and are shared, like the bucket.

\* the workers a frame is run with
MaxWorkers == 2

\* backup_directory up to its for loop, on worker t
WorkerStart(t) ==
    /\ threads[t].kind = "backup"
    /\ threads[t].at = "pass"
    /\ IF Guard(variant, "backup", entries) = "ok"
       THEN /\ \E w \in WalkOrders(platform, local) :
                  threads' = [threads EXCEPT ![t].items = w, ![t].i = 1,
                                              ![t].at = "file"]
            /\ total_size' = SumSizes(local, DOMAIN local)
            /\ bytes_uploaded' = 0
            /\ log' = Append(log, Line("start", <<>>))
            /\ UNCHANGED notice
       ELSE /\ threads' = [threads EXCEPT ![t].at = "done"]
            /\ log' = log \o <<Line("start", <<>>), Line("completed", <<>>)>>
            /\ notice' = notice \o <<"error", "info">>
            /\ UNCHANGED <<total_size, bytes_uploaded>>
    /\ UNCHANGED <<variant, platform, computer_id, keys, entries, config, running,
                   scheduled_job, timer, rows, clicks, local, remote, dest, pc, file_list, object_list, idx,
                   local_md5, down, calls, opsDone, faults, edits>>

\* one iteration of the for loop on worker t: compute_md5, head_object and,
\* unless the fingerprints match, upload_file with its progress callback
WorkerFile(t) ==
    /\ threads[t].kind = "backup"
    /\ threads[t].at = "file"
    /\ threads[t].i <= Len(threads[t].items)
    /\ LET n    == threads[t].i
           f    == threads[t].items[n]
           key  == KeyOf(f)
           md5  == Md5(local[f])
           size == SizeOf(local[f])
           next == [threads EXCEPT ![t].i = NextItem(n, "ok")]
           head(o, m) == [CallBy(t, n, "head_object", key, <<>>, o) EXCEPT !.md5 = m]
           put(r)     == [CallBy(t, n, "upload_file", key, <<>>, r) EXCEPT !.md5 = md5]
       IN  \/ \* compute_md5 raises: run_backup logs the error
              /\ faults < MaxFaults
              /\ faults' = faults + 1
              /\ threads' = [threads EXCEPT ![t].at = "done"]
              /\ log' = Append(log, Line("run_error", <<>>))
              /\ notice' = Append(notice, "error")
              /\ UNCHANGED <<remote, bytes_uploaded, calls>>
           \/ \E o \in {IF key \in DOMAIN remote THEN "ok" ELSE "404"}
                          \cup (IF faults < MaxFaults THEN HeadFaults ELSE {}) :
                LET s3_md5 == IF o = "ok" THEN remote[key].md5 ELSE NoMd5
                    d      == HeadDecision(variant, o, s3_md5, md5)
                IN  /\ faults' = IF o \in HeadFaults THEN faults + 1 ELSE faults
                    /\ CASE d = "skip" ->
                              /\ calls' = Append(calls, head(o, s3_md5))
                              /\ log' = Append(log, Line("skip", f))
                              /\ bytes_uploaded' =
                                    bytes_uploaded + SkipProgress(variant, size)
                              /\ threads' = next
                              /\ UNCHANGED <<remote, notice>>
                         [] d = "upload" ->
                              /\ calls' = calls \o <<head(o, s3_md5), put("ok")>>
                              /\ remote' = (key :> Uploaded(local[f], md5)) @@ remote
                              /\ log' = Append(log, Line("uploaded", f))
                              /\ \E b \in UploadProgress(variant, size, TRUE) :
                                    bytes_uploaded' = bytes_uploaded + b
                              /\ threads' = next
                              /\ UNCHANGED notice
                         [] d \in {"log_checking", "log_uploading"} ->
                              /\ calls' = Append(calls, head(o, s3_md5))
                              /\ log' = Append(log, Line("error_checking", key))
                              /\ threads' = next
                              /\ UNCHANGED <<remote, bytes_uploaded, notice>>
                         [] d = "raise" ->
                              /\ calls' = Append(calls, head(o, s3_md5))
                              /\ threads' = [threads EXCEPT ![t].at = "done"]
                              /\ log' = Append(log, Line("run_error", <<>>))
                              /\ notice' = Append(notice, "error")
                              /\ UNCHANGED <<remote, bytes_uploaded>>
           \/ \* upload_file raises after reporting a part of the bytes
              /\ faults < MaxFaults
              /\ faults' = faults + 1
              /\ LET o == IF key \in DOMAIN remote THEN "ok" ELSE "404"
                     s3_md5 == IF o = "ok" THEN remote[key].md5 ELSE NoMd5
                 IN  /\ HeadDecision(variant, o, s3_md5, md5) = "upload"
                     /\ calls' = calls \o <<head(o, s3_md5), put("error")>>
              /\ log' = Append(log, Line("error_uploading", f))
              /\ \E b \in UploadProgress(variant, size, FALSE) :
                    bytes_uploaded' = bytes_uploaded + b
              /\ threads' = next
              /\ UNCHANGED <<remote, notice>>
    /\ UNCHANGED <<variant, platform, computer_id, keys, entries, config, running,
                   scheduled_job, timer, rows, clicks, local, dest, pc, file_list, object_list, idx, local_md5,
                   total_size, down, opsDone, edits>>

\* the loop is over: backup_directory returns, run_backup logs completion
WorkerEnd(t) ==
    /\ threads[t].kind = "backup"
    /\ threads[t].at = "file"
    /\ threads[t].i > Len(threads[t].items)
    /\ threads' = [threads EXCEPT ![t].at = "done"]
    /\ log' = Append(log, Line("completed", <<>>))
    /\ notice' = Append(notice, "info")
    /\ UNCHANGED <<variant, platform, computer_id, keys, entries, config, running,
                   scheduled_job, timer, rows, clicks, local, remote, dest, pc, file_list, object_list, idx,
                   local_md5, up, down, calls, opsDone, faults, edits>>

InitShared ==
    /\ variant \in GuiVariants
    /\ platform \in Platforms
    /\ computer_id = <<>>
    /\ entries = ValidEntries
    /\ GuiIdle
    /\ local \in Trees(platform)
    /\ remote = EmptyMap
    /\ dest = EmptyMap
    /\ pc = "idle"
    /\ file_list = <<>>
    /\ object_list = <<>>
    /\ idx = 0
    /\ local_md5 = NoMd5
    /\ total_size = 0
    /\ bytes_uploaded = 0
    /\ total_download_size = 0
    /\ bytes_downloaded = 0
    /\ calls = <<>>
    /\ log = <<>>
    /\ notice = <<>>
    /\ keys = <<>>
    /\ opsDone = <<>>
    /\ faults = 0
    /\ edits = 0

NextShared ==
    \/ Len(threads) < MaxWorkers /\ StartBackupThread
    \/ \E t \in DOMAIN threads :
          \/ WorkerStart(t)
          \/ WorkerFile(t)
          \/ WorkerEnd(t)

SpecShared == InitShared /\ [][NextShared]_vars

\* ---------------------------------------------------------------------------
\* The upload pass of the three programs, each run on the same tree, in the
\* same enumeration order, against its own copy of the same bucket, with no
\* call failing: head_object answers with the object or with not-found, and
\* upload_file stores the file.

\* the for loop of backup_directory in program v, from the files still to do:
\* what it decided for each file, with which key and fingerprint, and the
\* bucket it leaves
RECURSIVE PassFrom(_, _, _, _, _, _, _)
PassFrom(v, pf, raw, tree, todo, bucket, trace) ==
    IF todo = <<>> THEN [trace |-> trace, bucket |-> bucket]
    ELSE LET rel    == Head(todo)
             s3_key == S3Key(v, pf, raw, rel)
             md5    == Md5(tree[rel])
             o      == IF s3_key \in DOMAIN bucket THEN "ok" ELSE "404"
             s3_md5 == IF o = "ok" THEN bucket[s3_key].md5 ELSE NoMd5
             d      == HeadDecision(v, o, s3_md5, md5)
             step   == [rel_path |-> rel, s3_key |-> s3_key, decision |-> d,
                        file_md5 |-> md5]
         IN  IF d = "skip"
             THEN PassFrom(v, pf, raw, tree, Tail(todo), bucket, Append(trace, step))
             ELSE PassFrom(v, pf, raw, tree, Tail(todo),
                           (s3_key :> Uploaded(tree[rel], md5)) @@ bucket,
                           Append(trace, step))

\* namespaces that are not empty and have no whitespace around them and no
\* path separator in them
PlainNs ==
    {ns \in NsStrings :
        /\ ns # <<>>
        /\ Strip(ns) = ns
        /\ \A n \in 1..Len(ns) : ns[n] \notin {"/", "\\"}}

\* what a bucket may hold under the keys of a tree before the pass: nothing,
\* an upload of either content, or an object without file_md5
BucketsFor(K) ==
    UNION {[S -> {Uploaded(c, Md5(c)) : c \in Contents} \cup {AlienObject}] :
              S \in SUBSET K}

InitEquiv ==
    /\ variant = "job"
    /\ platform \in Platforms
    /\ computer_id \in PlainNs
    /\ entries = ValidEntries
    /\ GuiIdle
    /\ local \in Trees(platform)
    /\ remote \in BucketsFor({S3Key("job", platform, computer_id, rel) :
                                  rel \in DOMAIN local})
    /\ file_list \in WalkOrders(platform, local)
    /\ dest = EmptyMap
    /\ pc = "idle"
    /\ object_list = <<>>
    /\ idx = 0
    /\ local_md5 = NoMd5
    /\ total_size = 0
    /\ bytes_uploaded = 0
    /\ total_download_size = 0
    /\ bytes_downloaded = 0
    /\ calls = <<>>
    /\ log = <<>>
    /\ notice = <<>>
    /\ keys = <<>>
    /\ opsDone = <<>>
    /\ faults = 0
    /\ edits = 0

\* program v runs its upload pass over file_list against a copy of remote
RunProgram(v) ==
    /\ \A k \in 1..Len(opsDone) : opsDone[k].program # v
    /\ LET r == PassFrom(v, platform, computer_id, local, file_list, remote, <<>>)
       IN  opsDone' = Append(opsDone,
                             [program |-> v, trace |-> r.trace, bucket |-> r.bucket]
                               @@ Done("backup", "returned", faults))
    /\ UNCHANGED <<env, local, remote, dest, pc, file_list, object_list, idx,
                   local_md5, up, down, calls, log, notice, faults, edits>>

NextEquiv == \E v \in Variants : RunProgram(v)

SpecEquiv == InitEquiv /\ [][NextEquiv]_vars

\* ---------------------------------------------------------------------------
\* C21: a worker of the selective restore leaves its for loop before the last
\* selected item (the break of "if not self.running") only when the user
\* clicked to cancel its own batch; a batch that was never cancelled tries
\* every selected item.
Cex_C21 ==
    \A t \in DOMAIN threads :
        (/\ threads[t].kind = "selective"
         /\ threads[t].at = "end"
         /\ threads[t].i <= Len(threads[t].items))
        => threads[t].cancelled

\* ---------------------------------------------------------------------------
\* C22: whenever no worker of the selective restore is alive, self.running is
\* False, whichever way the workers left restore_selected_files (end of the
\* loop, cancellation, empty selection, missing restore directory or
\* credentials, exception); the next click on the button therefore takes the
\* "start a batch" branch of start_restore_thread.
Thm_C22 ==
    (\A t \in DOMAIN threads : threads[t].kind = "selective" => ~Live(t)) => ~running

\* two batches were started one after the other, both workers have returned,
\* the first of them through a return before the loop or through an exception
Wit_C22 ==
    /\ Len(threads) >= 2
    /\ \A t \in DOMAIN threads : threads[t].kind = "selective" /\ ~Live(t)
    /\ threads[1].i <= Len(threads[1].items)
    /\ ~threads[1].cancelled
    /\ ~running

\* ---------------------------------------------------------------------------
\* C23: "Backup completed successfully" is logged (and the notification shown)
\* only for a run whose pass went through the tree and in which every
\* enumerated file was uploaded successfully or skipped on a matching
\* fingerprint.
SkippedOnMatch(i) == \E l \in 1..Len(log) : log[l] = Line("skip", file_list[i])

Cex_C23 ==
    (/\ pc = "idle" /\ opsDone # <<>> /\ Last(opsDone).kind = "backup"
     /\ \E l \in 1..Len(log) : log[l].kind = "completed")
    => /\ Last(opsDone).outcome = "returned"
       /\ \A i \in 1..Len(file_list) : UploadedOk(i) \/ SkippedOnMatch(i)

\* ---------------------------------------------------------------------------
\* C24: start_scheduled_backup of Ver4.2.py is turned away with "Scheduled
\* backup already running" (an info box, nothing logged, nothing armed) only
\* while a timer is pending.
Cex_C24 ==
    [][(/\ variant = "Ver42"
        /\ notice' = Append(notice, "info")
        /\ log' = log)
       => timer]_vars

\* ---------------------------------------------------------------------------
\* C25: the progress counters of the frame satisfy
\* 0 <= bytes_uploaded <= total_size in every state, also when a second
\* upload pass is started on the frame before the first one has finished.
Cex_C25 == 0 <= bytes_uploaded /\ bytes_uploaded <= total_size

\* ---------------------------------------------------------------------------
\* C26: every local path the restore pass or the selective restore creates or
\* writes lies inside the restore directory: joined under it, the path has no
\* ".." component left after normalisation.
Inside(path) == \A n \in 1..Len(path) : path[n] # <<".", ".">>

Cex_C26 ==
    \A j \in 1..Len(calls) :
        calls[j].op \in {"makedirs", "download_file"} => Inside(calls[j].path)

\* ---------------------------------------------------------------------------
\* C27: run on the same tree, bucket and plain namespace with no call
\* failing, the upload passes of S3Sync.py, Ver4.2.py and backupjob.py take
\* the same skip-or-upload decision for every file, call upload_file with the
\* same keys and file_md5 values in the same order, and leave the same bucket.
Thm_C27 ==
    \A a, b \in 1..Len(opsDone) :
        /\ opsDone[a].trace = opsDone[b].trace
        /\ opsDone[a].bucket = opsDone[b].bucket

\* the three programs have run on a Windows tree with a file in a
\* sub-directory, and the pass skipped one file and uploaded another
Wit_C27 ==
    /\ Len(opsDone) = 3
    /\ platform = "nt"
    /\ \E n \in 1..Len(opsDone[1].trace) :
          /\ opsDone[1].trace[n].decision = "skip"
          /\ HasBackslash(opsDone[1].trace[n].rel_path)
    /\ \E n \in 1..Len(opsDone[1].trace) : opsDone[1].trace[n].decision = "upload"

====
